---------------------------- MODULE Spec2Model ----------------------------
(***************************************************************************)
(* A model of datasets/DataReader.py: the interaction parser, the matrix   *)
(* builder, the train/test/validation splitter, the cross-validation fold  *)
(* generator and the cache logic of process().                             *)
(*                                                                         *)
(* Representation.                                                         *)
(*  - An optional value (a Python attribute that may not exist yet, a file *)
(*    that may be absent) is the empty tuple << >> or a one-element tuple  *)
(*    <<v>>.                                                               *)
(*  - A line of the ratings file is the tuple of its fields, i.e. the      *)
(*    result of line.split(delimiter); a field is a record [k, v] where k  *)
(*    says what kind of literal the text is ("int", "float", "bad") and v  *)
(*    is its numeric value.                                                *)
(*  - A sparse matrix is [fmt, shape, ent]: in COO format ent keeps every  *)
(*    stored entry in order, duplicates included; a CSR matrix is COO with *)
(*    fmt = "csr" whose entries are sorted and have distinct coordinates.  *)
(*  - Ratings are integer valued floats (1.0 is 1).                        *)
(*  - A list of probabilities is [p, den]: the numerators p over the      *)
(*    common denominator den.                                             *)
(***************************************************************************)
EXTENDS Integers, Sequences, FiniteSets, TLC

VARIABLES
    disk,      \* the dataset directory: ratings file and persisted artifacts
    inst,      \* the attributes of the DataReader instance
    rng,       \* the state of the process-wide numpy random generator
    gen,       \* the generator object returned by get_CV_folds, if any
    out,       \* the outcome of the last request made to the instance
    hist       \* what earlier requests returned (read by the properties only)

vars == <<disk, inst, rng, gen, out, hist>>

(***************************************************************************)
(* Bounds of the model.                                                    *)
(***************************************************************************)
MaxLines == 3       \* lines in the ratings file
MaxNnz == 2         \* lines in the ratings file of a matrix that is split
MaxFolds == 2       \* largest fold count passed to get_CV_folds
MaxCalls == 2       \* split / describe / fold / process requests in a behaviour
RngBase == 3        \* resolution of one uniform draw: u / RngBase
IdBits == 4         \* model width of array('I') / np.int32 (32 in the code)

None == << >>
Some(v) == <<v>>
IsSome(o) == Len(o) = 1
Get(o) == o[1]

Range(s) == {s[i] : i \in 1..Len(s)}

RECURSIVE SumSeq(_)
SumSeq(s) == IF s = << >> THEN 0 ELSE Head(s) + SumSeq(Tail(s))

RECURSIVE Pow(_, _)
Pow(b, n) == IF n = 0 THEN 1 ELSE b * Pow(b, n - 1)

\* s restricted to the positions where mask is TRUE (numpy boolean indexing)
RECURSIVE MaskSeq(_, _)
MaskSeq(s, mask) ==
    IF s = << >> THEN << >>
    ELSE (IF Head(mask) THEN <<Head(s)>> ELSE << >>) \o MaskSeq(Tail(s), Tail(mask))

(***************************************************************************)
(* Sparse matrices (scipy.sparse).                                         *)
(***************************************************************************)
Entry(r, c, v) == [row |-> r, col |-> c, val |-> v]

Coo(shape, ent) == [fmt |-> "coo", shape |-> shape, ent |-> ent]

EntryLess(a, b) == a.row < b.row \/ (a.row = b.row /\ a.col < b.col)

\* the entries of a set with distinct coordinates, in row-major order
RECURSIVE SortEntries(_)
SortEntries(S) ==
    IF S = {} THEN << >>
    ELSE LET m == CHOOSE a \in S : \A b \in S \ {a} : EntryLess(a, b)
         IN  <<m>> \o SortEntries(S \ {m})

RECURSIVE SumAt(_, _, _)
SumAt(ent, r, c) ==
    IF ent = << >> THEN 0
    ELSE (IF Head(ent).row = r /\ Head(ent).col = c THEN Head(ent).val ELSE 0)
         + SumAt(Tail(ent), r, c)

\* coo_matrix.tocsr() / csr_matrix(coo): entries with the same coordinates
\* are summed into one stored entry; explicit zeros are kept.
ToCsr(m) ==
    [fmt |-> "csr", shape |-> m.shape,
     ent |-> SortEntries({Entry(e.row, e.col, SumAt(m.ent, e.row, e.col)) :
                              e \in Range(m.ent)})]

Nnz(m) == Len(m.ent)

\* how many stored entries of m are exactly e
CountIn(m, e) == Cardinality({i \in 1..Len(m.ent) : m.ent[i] = e})

\* URM.sum(axis=1).A1[r]
RowSum(m, r) == SumSeq([i \in 1..Len(m.ent) |->
                           IF m.ent[i].row = r THEN m.ent[i].val ELSE 0])

(***************************************************************************)
(* The ratings file and its parser (read_interactions).                    *)
(***************************************************************************)
IntLit(n) == [k |-> "int", v |-> n]         \* text such as "12"
FloatLit(n) == [k |-> "float", v |-> n]     \* text such as "12.0"
BadLit == [k |-> "bad", v |-> 0]            \* text such as "abc" or ""

TwoPow(n) == Pow(2, n)

\* the smallest raw id whose top bit is set in an unsigned int
HighId == TwoPow(IdBits - 1)

Ok(v) == [err |-> "", v |-> v]
Fail(kind) == [err |-> kind, v |-> 0]

\* int(text) followed by array.array('I').append
ParseId(f) ==
    IF f.k # "int" THEN Fail("ValueError")
    ELSE IF f.v < 0 \/ f.v >= TwoPow(IdBits) THEN Fail("OverflowError")
    ELSE Ok(f.v)

\* float(text) followed by array.array('f').append
ParseRating(f) == IF f.k = "bad" THEN Fail("ValueError") ELSE Ok(f.v)

\* row_data[use_cols[role]]: the dict lookup, then the list index (0-based)
Field(line, use_cols, role) ==
    IF role \notin DOMAIN use_cols THEN Fail("KeyError")
    ELSE IF use_cols[role] + 1 > Len(line) THEN Fail("IndexError")
    ELSE Ok(line[use_cols[role] + 1])

IdOf(fld) == IF fld.err # "" THEN fld ELSE ParseId(fld.v)

RatingOf(fld) == IF fld.err # "" THEN fld ELSE ParseRating(fld.v)

\* int(row_data[use_cols[role]]) appended to an array('I')
IdField(line, use_cols, role) == IdOf(Field(line, use_cols, role))

\* float(row_data[use_cols['rating']]) appended to the array('f')
RatingField(line, use_cols) == RatingOf(Field(line, use_cols, "rating"))

\* one iteration of the loop over the lines: the three appends in order;
\* the first failing one raises
FirstFailure(u, i, r) ==
    IF u.err # "" THEN [err |-> u.err, row |-> 0, col |-> 0, val |-> 0]
    ELSE IF i.err # "" THEN [err |-> i.err, row |-> 0, col |-> 0, val |-> 0]
    ELSE [err |-> r.err, row |-> u.v, col |-> i.v, val |-> r.v]

ParseLine(line, use_cols) ==
    FirstFailure(IdField(line, use_cols, "user_id"),
                 IdField(line, use_cols, "item_id"),
                 RatingField(line, use_cols))

EmptyParse == [err |-> "", rows |-> << >>, cols |-> << >>, data |-> << >>]

\* the arrays after the three appends of one line
Appended(acc, t) ==
    [err |-> "", rows |-> Append(acc.rows, t.row),
     cols |-> Append(acc.cols, t.col), data |-> Append(acc.data, t.val)]

\* the loop over the lines, at the line that parsed as t
RECURSIVE ParseLines(_, _, _)
ParseStep(lines, use_cols, acc, t) ==
    IF t.err # "" THEN [acc EXCEPT !.err = t.err]
    ELSE ParseLines(Tail(lines), use_cols, Appended(acc, t))

ParseLines(lines, use_cols, acc) ==
    IF lines = << >> THEN acc
    ELSE ParseStep(lines, use_cols, acc, ParseLine(Head(lines), use_cols))

\* a reader that drops a line it cannot parse and goes on
RECURSIVE ParseLinesSkipping(_, _, _)
ParseStepSkipping(lines, use_cols, acc, t) ==
    ParseLinesSkipping(Tail(lines), use_cols,
                       IF t.err # "" THEN acc ELSE Appended(acc, t))

ParseLinesSkipping(lines, use_cols, acc) ==
    IF lines = << >> THEN acc
    ELSE ParseStepSkipping(lines, use_cols, acc, ParseLine(Head(lines), use_cols))

read_interactions_skipping(file, use_cols, header) ==
    ParseLinesSkipping(IF header /\ file # << >> THEN Tail(file) ELSE file,
                       use_cols, EmptyParse)

\* err = "" and the three arrays, or err = the exception raised (the arrays
\* filled so far are local to the call and lost with it)
read_interactions(file, use_cols, header) ==
    ParseLines(IF header /\ file # << >> THEN Tail(file) ELSE file,
               use_cols, EmptyParse)

(***************************************************************************)
(* The matrix builder (build_URM).                                         *)
(***************************************************************************)
\* np.frombuffer(a, dtype=np.int32) on an array.array('I'): the same bits
\* read as a signed integer
AsInt32(v) == IF v >= TwoPow(IdBits - 1) THEN v - TwoPow(IdBits) ELSE v

\* the ascending sequence of a finite set of integers
RECURSIVE SortInts(_)
SortInts(S) ==
    IF S = {} THEN << >>
    ELSE <<CHOOSE a \in S : \A b \in S : a <= b>>
         \o SortInts(S \ {CHOOSE a \in S : \A b \in S : a <= b})

\* np.unique(a): the sorted distinct values
Unique(a) == SortInts(Range(a))

\* np.unique(a, return_counts=True)[1], given the distinct values
CountsOf(a, uniq) ==
    [j \in 1..Len(uniq) |-> Cardinality({i \in 1..Len(a) : a[i] = uniq[j]})]

UniqueCounts(a) == CountsOf(a, Unique(a))

Reverse(s) == [i \in 1..Len(s) |-> s[Len(s) + 1 - i]]

\* np.argsort(counts): an index order that sorts counts ascending. The
\* default sort is not stable, so equal counts may come in any order.
ArgSorts(counts) ==
    {p \in [1..Len(counts) -> 1..Len(counts)] :
        /\ \A i, j \in 1..Len(counts) : i # j => p[i] # p[j]
        /\ \A i, j \in 1..Len(counts) : i < j => counts[p[i]] <= counts[p[j]]}

\* a filter that rounds the number of items to drop up
TopKCeil(n, r) == (n * r[1] + r[2] - 1) \div r[2]

\* k = int(np.floor(len(unique_items) * remove_top_pop)), with the fraction
\* remove_top_pop given as <<numerator, denominator>>
TopK(n, r) == (n * r[1]) \div r[2]

\* seq[k:]
DropFirst(s, k) == IF k >= Len(s) THEN << >> ELSE SubSeq(s, k + 1, Len(s))

\* dict(zip(keys, range(0, len(keys))))
DictZip(keys) ==
    [x \in Range(keys) |-> (CHOOSE i \in 1..Len(keys) : keys[i] = x) - 1]

\* unique_items[sorted_indices][k:] for the argsort result order
KeptItems(items, r, order) ==
    DropFirst(Reverse([i \in 1..Len(order) |-> items[order[i]]]),
              TopK(Len(items), r))

\* lines 397-403: the arrays under col_mask = np.isin(cols, unique_items),
\* rows and cols read through an int32 view
Masked(p, kept, mask) ==
    [unique_items |-> kept,
     rows |-> MaskSeq([i \in 1..Len(p.rows) |-> AsInt32(p.rows[i])], mask),
     cols |-> MaskSeq([i \in 1..Len(p.cols) |-> AsInt32(p.cols[i])], mask),
     data |-> MaskSeq(p.data, mask)]

KeepOnly(p, kept) ==
    Masked(p, kept, [i \in 1..Len(p.cols) |-> p.cols[i] \in Range(kept)])

\* lines 391-403 when remove_top_pop > 0
FilterTopPop(p, r, order) == KeepOnly(p, KeptItems(Unique(p.cols), r, order))

\* lines 391-403 when remove_top_pop = 0
NoFilter(p) ==
    [unique_items |-> Unique(p.cols), rows |-> p.rows, cols |-> p.cols,
     data |-> p.data]

\* a builder that keeps the ratings it read
KeepRatings(p, implicit) == p

\* lines 388-389: data = np.ones(len(data)) if implicit
ImplicitData(p, implicit) ==
    IF implicit THEN [p EXCEPT !.data = [i \in 1..Len(p.data) |-> 1]] ELSE p

\* lines 412-415: the entries of the matrix. pd.Series.map leaves NaN where
\* a key is missing from the dict; the cast of NaN to an integer index is
\* undefined: it gives a negative index, which scipy rejects (nanCast =
\* "error"), or 0 (nanCast = "zero").
Mapped(f, row_to_user, col_to_item, nanCast) ==
    [err |-> IF nanCast = "error" /\ \E i \in 1..Len(f.cols) :
                                        f.cols[i] \notin DOMAIN col_to_item
             THEN "ValueError" ELSE "",
     row_to_user |-> row_to_user,
     col_to_item |-> col_to_item,
     URM |-> Coo(<<Cardinality(DOMAIN row_to_user), Cardinality(DOMAIN col_to_item)>>,
                 [i \in 1..Len(f.rows) |->
                     Entry(row_to_user[f.rows[i]],
                           IF f.cols[i] \in DOMAIN col_to_item
                           THEN col_to_item[f.cols[i]] ELSE 0,
                           f.data[i])])]

\* lines 405-415 for the filtered arrays f
MapIds(f, nanCast) ==
    Mapped(f, DictZip(Unique(f.rows)), DictZip(f.unique_items), nanCast)

\* lines 388-415: the body of build_URM after a successful parse p, up to
\* the construction of the matrix; order is the argsort result
BuildMatrix(p, r, order, nanCast) ==
    MapIds(IF r[1] > 0 THEN FilterTopPop(p, r, order) ELSE NoFilter(p), nanCast)

(***************************************************************************)
(* The instance (DataReader.__init__) and the dataset directory.           *)
(***************************************************************************)
AllCols == [user_id |-> 0, item_id |-> 1, rating |-> 2]
NoRatingCols == [user_id |-> 0, item_id |-> 1]

\* a split ratio is [p |-> <<p1, ...>>, den |-> d]: the probabilities p_i/d
Ratio(ps, d) == [p |-> ps, den |-> d]

\* the default arguments of the constructor
DefaultParams ==
    [use_cols |-> AllCols, split_ratio |-> Ratio(<<3, 1, 1>>, 5),
     header |-> FALSE, implicit |-> FALSE, remove_top_pop |-> <<0, 1>>,
     use_local |-> TRUE, force_rebuild |-> FALSE, save_local |-> TRUE,
     min_ratings |-> 1, verbose |-> TRUE, seed |-> 1234]

\* where a full matrix comes from: the configuration and the min_ratings of
\* the reader that built it and the ratings file it read (kept beside the
\* matrix for the properties only, as the fields "by" are)
Stamp(i, d) ==
    [config |-> Get(i.config), min_ratings |-> i.min_ratings, ratings |-> d.ratings]

\* where three splits come from: the full matrix they split and the
\* configuration and min_ratings of the reader that split it
SplitStamp(i) ==
    [of |-> i.by, config |-> Get(i.config), min_ratings |-> i.min_ratings]

\* an object none of whose attributes has been set
NoInstance ==
    [constructed |-> FALSE, use_local |-> FALSE, force_rebuild |-> FALSE,
     save_local |-> FALSE, min_ratings |-> 0, verbose |-> FALSE,
     use_cols |-> << >>, split_ratio |-> Ratio(<< >>, 1), header |-> FALSE,
     implicit |-> FALSE, remove_top_pop |-> <<0, 1>>, config |-> None,
     URM |-> None, row_to_user |-> None, col_to_item |-> None,
     URM_train |-> None, URM_test |-> None, URM_validation |-> None,
     by |-> None]

\* a check that rejects only a ratio wrong in both respects
BadRatioAnd(ratio) == SumSeq(ratio.p) # ratio.den /\ Len(ratio.p) # 3

\* sum(split_ratio) != 1.0 or len(split_ratio) != 3
BadRatio(ratio) == SumSeq(ratio.p) # ratio.den \/ Len(ratio.p) # 3

\* lines 74-77
ImplicitOf(p) == IF Cardinality(DOMAIN p.use_cols) < 3 THEN TRUE ELSE p.implicit

\* lines 80-89
ConfigOf(p) ==
    [use_cols |-> p.use_cols, split_ratio |-> p.split_ratio,
     stratified_on |-> "item_popularity", header |-> p.header, delim |-> ",",
     implicit |-> ImplicitOf(p), remove_top_pop |-> p.remove_top_pop,
     seed |-> p.seed]

\* the attributes the constructor sets, in the state it leaves them
NewInstance(p) ==
    [NoInstance EXCEPT
        !.constructed = TRUE,
        !.use_local = p.use_local,
        !.force_rebuild = p.force_rebuild,
        !.save_local = p.save_local,
        !.min_ratings = p.min_ratings,
        !.verbose = p.verbose,
        !.use_cols = p.use_cols,
        !.split_ratio = p.split_ratio,
        !.header = p.header,
        !.remove_top_pop = p.remove_top_pop,
        !.implicit = ImplicitOf(p),
        !.config = Some(ConfigOf(p))]

\* the dataset directory with nothing but the ratings file in it
\* (zip: the downloaded archive, "partial" when the transfer was cut)
NewDisk(file) ==
    [ratings |-> file, URM |-> None, row_to_user |-> None, col_to_item |-> None,
     URM_train |-> None, URM_test |-> None, URM_validation |-> None,
     config |-> None, zip |-> None, by |-> [URM |-> None, splits |-> None]]

\* the outcome of a request: the operation, "ok" or the exception raised,
\* what it returned (a tuple), and whether a matrix argument was passed
Outcome(op, status, ret, withArg) ==
    [op |-> op, status |-> status, ret |-> ret, withArg |-> withArg]

NoOutcome == Outcome("", "ok", << >>, FALSE)

Status(err) == IF err = "" THEN "ok" ELSE err

\* calls: split / describe / fold requests made; last, prev: the two latest
\* splits that returned, each [input, M, ratio, min_ratings, seed, choice,
\* train, test, valid]
\* parsed: the lines the last build had read when it returned or raised
\* path: the branch the last process() took; was: the directory it found
NoHist ==
    [calls |-> 0, last |-> None, prev |-> None, parsed |-> 0, path |-> "",
     was |-> None]

\* DataReader(...): raises before anything is assigned when the ratio is bad.
\* The sum of the ratio is taken exactly; the ratios drawn are ones whose
\* floating-point sum is 1.0 exactly when their exact sum is 1.
Construct(P) ==
    \E p \in P :
        /\ inst' = IF BadRatio(p.split_ratio) THEN NoInstance ELSE NewInstance(p)
        /\ out' = Outcome("__init__",
                          IF BadRatio(p.split_ratio) THEN "AttributeError" ELSE "ok",
                          <<p>>, FALSE)
        /\ gen' = None
        /\ UNCHANGED <<disk, rng, hist>>

\* line 415 onwards: the matrix is assigned, saved and returned
Built(i, d, b, n) ==
    [err |-> "", parsed |-> n,
     inst |-> [i EXCEPT !.row_to_user = Some(b.row_to_user),
                        !.col_to_item = Some(b.col_to_item),
                        !.URM = Some(b.URM),
                        !.by = Some(Stamp(i, d))],
     disk |-> IF i.save_local
              THEN [d EXCEPT !.URM = Some(b.URM),
                             !.row_to_user = Some(b.row_to_user),
                             !.col_to_item = Some(b.col_to_item),
                             !.by.URM = Some(Stamp(i, d))]
              ELSE d,
     URM |-> Some(b.URM)]

\* the constructor of the matrix raised: the two dicts are already assigned
NotBuilt(i, d, b, n) ==
    [err |-> b.err, parsed |-> n,
     inst |-> [i EXCEPT !.row_to_user = Some(b.row_to_user),
                        !.col_to_item = Some(b.col_to_item)],
     disk |-> d,
     URM |-> None]

Finish(i, d, b, n) ==
    IF b.err # "" THEN NotBuilt(i, d, b, n) ELSE Built(i, d, b, n)

\* build_URM once the file is parsed as p
BuildParsed(i, d, p, order, nanCast) ==
    IF p.err # ""
    THEN [err |-> p.err, parsed |-> Len(p.rows), inst |-> i, disk |-> d, URM |-> None]
    ELSE Finish(i, d, BuildMatrix(ImplicitData(p, i.implicit), i.remove_top_pop,
                                  order, nanCast), Len(p.rows))

\* build_URM(file, self.use_cols, ..., self.save_local, self.implicit,
\* self.remove_top_pop): the instance and the directory it leaves, the
\* exception it raises (err) or the matrix it returns.
build_URM(i, d, file, order, nanCast) ==
    BuildParsed(i, d, read_interactions(file, i.use_cols, i.header), order, nanCast)

\* The argsort results build_URM may see (one dummy order when the
\* popularity filter is not run).
OrdersFor(p, r) ==
    IF p.err = "" /\ r[1] > 0 THEN ArgSorts(UniqueCounts(p.cols)) ELSE {<< >>}

BuildOrders(i, file) ==
    OrdersFor(read_interactions(file, i.use_cols, i.header), i.remove_top_pop)

NanCasts == {"error", "zero"}

(***************************************************************************)
(* The process-wide random generator (np.random).                          *)
(***************************************************************************)
RngMod == Pow(RngBase, MaxNnz)

\* the i-th uniform number the generator in state g hands out, as a
\* multiple of 1/RngBase
Draw(g, i) == (g \div Pow(RngBase, (i - 1) % MaxNnz)) % RngBase

\* the state after n numbers were drawn
RngNext(g, n) == (g + n) % RngMod

Labels == <<"train", "test", "valid">>

Cdf(ratio, j) == SumSeq(SubSeq(ratio.p, 1, j))

\* np.random.choice(['train','test','valid'], p=split_ratio) for one uniform
\* number u: the first label whose cumulative probability exceeds u
ChooseLabel(ratio, u) ==
    Labels[Cardinality({j \in 1..Len(ratio.p) :
                           Cdf(ratio, j) * RngBase <= u * ratio.den}) + 1]

\* np.random.choice(range(folds)) for one uniform number u
ChooseFold(folds, u) == (u * folds) \div RngBase

\* np.random.choice rejects p of another length than its population, and p
\* that does not sum to 1
ChoiceRejects(ratio) == Len(ratio.p) # 3 \/ SumSeq(ratio.p) # ratio.den

(***************************************************************************)
(* The splitter (split_urm).                                               *)
(***************************************************************************)
\* lines 482-486: the rows in masked are zeroed and the zeros eliminated
WithoutRows(csr, masked) ==
    Coo(csr.shape, SelectSeq(csr.ent, LAMBDA e : e.row \notin masked /\ e.val # 0))

\* line 481: rows are masked by the SUM of their stored values
MaskedRows(csr, min_ratings) ==
    {r \in 0..(csr.shape[1] - 1) : RowSum(csr, r) < min_ratings}

MinRatingsCsr(csr, min_ratings) == WithoutRows(csr, MaskedRows(csr, min_ratings))

\* lines 480-486
MinRatingsFilter(URM, min_ratings) == MinRatingsCsr(ToCsr(URM), min_ratings)

\* URM.data[choice == label], URM.row[...], URM.col[...] as a COO matrix
Part(URM, choice, label) ==
    Coo(URM.shape, MaskSeq(URM.ent, [j \in 1..Len(choice) |-> choice[j] = label]))

SplitRaised(i, d, g, kind) ==
    [err |-> kind, inst |-> i, disk |-> d, rng |-> g, ret |-> << >>,
     choice |-> << >>, M |-> None, input |-> None]

\* lines 498-510: the three matrices are assigned, saved and returned
SplitDone(i, d, given, M, choice, train, test, valid, save, g) ==
    [err |-> "",
     inst |-> [i EXCEPT !.URM_train = Some(train), !.URM_test = Some(test),
                        !.URM_validation = Some(valid)],
     disk |-> IF save
              THEN [d EXCEPT !.URM_train = Some(train), !.URM_test = Some(test),
                             !.URM_validation = Some(valid),
                             !.by.splits = Some(SplitStamp(i))]
              ELSE d,
     rng |-> RngNext(g, Nnz(M)),
     ret |-> <<train, test, valid>>,
     choice |-> choice,
     M |-> Some(M),
     input |-> given]

\* lines 493-500 for the labels choice
SplitBy(i, d, given, M, choice, save, g) ==
    SplitDone(i, d, given, M, choice, ToCsr(Part(M, choice, "train")),
              ToCsr(Part(M, choice, "test")), ToCsr(Part(M, choice, "valid")),
              save, g)

\* line 491 for the matrix M left by the filter
SplitDraw(i, d, given, M, ratio, save, g) ==
    IF ChoiceRejects(ratio) THEN SplitRaised(i, d, g, "ValueError")
    ELSE SplitBy(i, d, given, M,
                 [j \in 1..Nnz(M) |-> ChooseLabel(ratio, Draw(g, j))], save, g)

\* lines 476-491 for the matrix given
SplitGiven(i, d, given, ratio, save, min_ratings, verbose, g) ==
    IF given = None THEN SplitRaised(i, d, g, "AttributeError")
    ELSE IF min_ratings # 1 /\ verbose THEN SplitRaised(i, d, g, "TypeError")
    ELSE SplitDraw(i, d, given,
                   IF min_ratings # 1
                   THEN MinRatingsFilter(Get(given), min_ratings) ELSE Get(given),
                   ratio, save, g)

\* split_urm(arg, split_ratio, save_local, min_ratings, verbose, save_dir)
\* with the generator in state g; arg is None or Some(matrix), save_dir is
\* whether a directory was given. In the result, choice is the label drawn
\* for each entry, M the matrix the labels were drawn for, input the matrix
\* given.
split_urm(i, d, arg, ratio, save_local, min_ratings, verbose, save_dir, g) ==
    SplitGiven(i, d, IF arg = None THEN i.URM ELSE arg, ratio,
               save_local /\ save_dir, min_ratings, verbose, g)

(***************************************************************************)
(* Requests made to the instance.                                          *)
(***************************************************************************)
BuildReturns(b) ==
    /\ inst' = b.inst
    /\ disk' = b.disk
    /\ out' = Outcome("build_URM", Status(b.err), b.URM, FALSE)
    /\ hist' = [hist EXCEPT !.parsed = b.parsed]

\* build_URM on the ratings file of the dataset directory
BuildURM ==
    /\ inst.constructed
    /\ inst.URM = None
    /\ IsSome(disk.ratings)
    /\ \E order \in BuildOrders(inst, Get(disk.ratings)), nanCast \in NanCasts :
          BuildReturns(build_URM(inst, disk, Get(disk.ratings), order, nanCast))
    /\ UNCHANGED <<rng, gen>>

\* the matrix arguments a caller passes: none, or the instance's own URM
\* (as build_local and process do)
MatrixArgs == {None, inst.URM}

SplitInfo(s, i) ==
    [input |-> Get(s.input), M |-> Get(s.M), ratio |-> i.split_ratio,
     min_ratings |-> i.min_ratings, seed |-> Get(i.config).seed,
     choice |-> s.choice, train |-> s.ret[1], test |-> s.ret[2],
     valid |-> s.ret[3]]

SplitReturns(s, withArg) ==
    /\ inst' = s.inst
    /\ disk' = s.disk
    /\ rng' = s.rng
    /\ out' = Outcome("split_urm", Status(s.err), s.ret, withArg)
    /\ hist' = IF s.err = ""
               THEN [hist EXCEPT !.calls = @ + 1, !.last = Some(SplitInfo(s, inst)),
                                 !.prev = hist.last]
               ELSE [hist EXCEPT !.calls = @ + 1]

\* split_urm with the instance's settings: either split_urm(self.URM, ...,
\* save_dir=...) as build_local and process call it, or with neither a
\* matrix nor a directory
SplitUrm ==
    /\ inst.constructed
    /\ hist.calls < MaxCalls
    /\ \E arg \in MatrixArgs :
          SplitReturns(split_urm(inst, disk, arg, inst.split_ratio,
                                 inst.save_local, inst.min_ratings, inst.verbose,
                                 arg # None, rng),
                       arg # None)
    /\ UNCHANGED gen

\* lines 671-702: the statistics printed, or the exception
Described(URM) ==
    IF URM = None THEN Outcome("describe", "AttributeError", << >>, FALSE)
    ELSE IF Get(URM).shape[1] = 0 \/ Get(URM).shape[2] = 0
    THEN Outcome("describe", "ZeroDivisionError", << >>, FALSE)
    ELSE Outcome("describe", "ok",
                 <<Get(URM).shape[1], Get(URM).shape[2], Nnz(Get(URM))>>, FALSE)

\* describe()
Describe ==
    /\ inst.constructed
    /\ hist.calls < MaxCalls
    /\ out' = Described(inst.URM)
    /\ hist' = [hist EXCEPT !.calls = @ + 1]
    /\ UNCHANGED <<disk, inst, rng, gen>>

(***************************************************************************)
(* The fold generator (get_CV_folds). Calling a generator function runs    *)
(* none of its body: the body runs, up to the next yield, on each next().  *)
(***************************************************************************)
NewGenerator(arg, folds) ==
    [state |-> "created", arg |-> arg, folds |-> folds, next |-> 0,
     M |-> None, choice |-> << >>, yielded |-> << >>]

\* get_CV_folds(arg, folds): returns the generator object
GetCVFolds ==
    /\ inst.constructed
    /\ hist.calls < MaxCalls
    /\ \E arg \in MatrixArgs, folds \in 1..MaxFolds :
          /\ gen' = Some(NewGenerator(arg, folds))
          /\ out' = Outcome("get_CV_folds", "ok", <<"generator">>, arg # None)
    /\ hist' = [hist EXCEPT !.calls = @ + 1]
    /\ UNCHANGED <<disk, inst, rng>>

\* lines 537-539 for fold i: <<URM_train, URM_test>>
FoldPair(M, choice, i) ==
    <<ToCsr(Coo(M.shape, MaskSeq(M.ent, [j \in 1..Len(choice) |-> choice[j] # i]))),
      ToCsr(Coo(M.shape, MaskSeq(M.ent, [j \in 1..Len(choice) |-> choice[j] = i])))>>

Yields(g, pair) ==
    /\ gen' = Some([g EXCEPT !.state = "suspended", !.next = @ + 1,
                             !.yielded = Append(@, pair)])
    /\ out' = Outcome("next", "ok", pair, FALSE)

Ends(g, status) ==
    /\ gen' = Some([g EXCEPT !.state = "finished"])
    /\ out' = Outcome("next", status, << >>, FALSE)

\* line 534 and the first turn of the loop, with the labels drawn
Started(g, given, choice) ==
    /\ Yields([g EXCEPT !.M = given, !.choice = choice],
              FoldPair(Get(given), choice, 0))
    /\ rng' = RngNext(rng, Nnz(Get(given)))

\* lines 527-534 for the matrix given
StartWith(g, given) ==
    IF given = None
    THEN Ends(g, "AttributeError") /\ rng' = rng
    ELSE Started(g, given,
                 [j \in 1..Nnz(Get(given)) |-> ChooseFold(g.folds, Draw(rng, j))])

\* next(generator) on a generator that has not run yet: lines 524-534 and
\* the first turn of the loop
CVFirst ==
    /\ IsSome(gen) /\ Get(gen).state = "created"
    /\ StartWith(Get(gen), IF Get(gen).arg = None THEN inst.URM ELSE Get(gen).arg)
    /\ UNCHANGED <<disk, inst, hist>>

Resume(g) ==
    IF g.next < g.folds
    THEN Yields(g, FoldPair(Get(g.M), g.choice, g.next))
    ELSE Ends(g, "StopIteration")

\* next(generator) on a suspended generator: the next turn of the loop, or
\* its end
CVNext ==
    /\ IsSome(gen) /\ Get(gen).state = "suspended"
    /\ Resume(Get(gen))
    /\ UNCHANGED <<disk, inst, rng, hist>>

(***************************************************************************)
(* The download (download_url, get_ratings_file) and the build request     *)
(* (build_local, build_remote, process) of a dataset class that names its  *)
(* directory, its ratings file and its url.                                *)
(***************************************************************************)
Line(u, i, r) == <<IntLit(u), IntLit(i), FloatLit(r)>>

\* the ratings file inside the archive at the url
RemoteRatings == <<Line(1, 1, 5), Line(1, 2, 4)>>

\* what the server may do: the status of the response, whether the transfer
\* is cut, and the archive served ("ok", "corrupt", or "nomember" when the
\* ratings file is not in it)
Networks ==
    {[status |-> "404", cut |-> FALSE, archive |-> "ok"],
     [status |-> "200", cut |-> TRUE, archive |-> "ok"],
     [status |-> "200", cut |-> FALSE, archive |-> "ok"],
     [status |-> "200", cut |-> FALSE, archive |-> "corrupt"],
     [status |-> "200", cut |-> FALSE, archive |-> "nomember"]}

\* download_url: the else branch concatenates a str and the int status
\* code, which raises TypeError; a cut transfer leaves the file opened for
\* writing behind
download_url(d, net) ==
    IF net.status # "200" THEN [err |-> "TypeError", disk |-> d]
    ELSE IF net.cut
    THEN [err |-> "ConnectionError", disk |-> [d EXCEPT !.zip = Some("partial")]]
    ELSE [err |-> "", disk |-> [d EXCEPT !.zip = Some(net.archive)]]

\* lines 128-137 once the download returned dl
Extracted(dl) ==
    IF dl.err # "" THEN dl
    ELSE IF dl.disk.zip = Some("corrupt") THEN [dl EXCEPT !.err = "BadZipFile"]
    ELSE IF dl.disk.zip = Some("nomember") THEN [dl EXCEPT !.err = "KeyError"]
    ELSE [err |-> "",
          disk |-> [dl.disk EXCEPT !.ratings = Some(RemoteRatings), !.zip = None]]

get_ratings_file(d, net) == Extracted(download_url(d, net))

\* get_ratings_file() called on its own
GetRatingsFile ==
    /\ inst.constructed
    /\ \E net \in Networks :
          /\ disk' = get_ratings_file(disk, net).disk
          /\ out' = Outcome("get_ratings_file",
                            Status(get_ratings_file(disk, net).err), << >>, FALSE)
    /\ UNCHANGED <<inst, rng, gen, hist>>

\* where a build request stands: the exception raised (err), the instance,
\* the directory and the generator, and the branch taken
Staged(err, i, d, g, path) ==
    [err |-> err, inst |-> i, disk |-> d, rng |-> g, path |-> path]

\* pickle.dump(self.config, f) after the split s
ConfigSaved(s, path) ==
    Staged("", s.inst, [s.disk EXCEPT !.config = s.inst.config], s.rng, path)

AfterSplit(s, path) ==
    IF s.err # "" THEN Staged(s.err, s.inst, s.disk, s.rng, path)
    ELSE ConfigSaved(s, path)

\* the split and the config dump that follow the build b
AfterBuild(b, g, path) ==
    IF b.err # "" THEN Staged(b.err, b.inst, b.disk, g, path)
    ELSE AfterSplit(split_urm(b.inst, b.disk, b.inst.URM, b.inst.split_ratio,
                              b.inst.save_local, b.inst.min_ratings,
                              b.inst.verbose, TRUE, g), path)

AfterFetch(i, f, order, nanCast, g) ==
    IF f.err # "" THEN Staged(f.err, i, f.disk, g, "build_remote")
    ELSE AfterBuild(build_URM(i, f.disk, Get(f.disk.ratings), order, nanCast),
                    g, "build_remote")

build_remote(i, d, net, order, nanCast, g) ==
    AfterFetch(i, get_ratings_file(d, net), order, nanCast, g)

build_local(i, d, net, order, nanCast, g) ==
    IF IsSome(d.ratings)
    THEN AfterBuild(build_URM(i, d, Get(d.ratings), order, nanCast), g, "build_local")
    ELSE build_remote(i, d, net, order, nanCast, g)

\* a comparison that only looks whether a record exists
ConfigMissing(i, d) == d.config = None

\* lines 602-618: no config.pkl, or self.config != config
ConfigDiffers(i, d) == d.config = None \/ Get(d.config) # Get(i.config)

\* self.force_rebuild = True where lines 602-618 set it
Forced(i, d) == [i EXCEPT !.force_rebuild = @ \/ ConfigDiffers(i, d)]

\* lines 647-650 and 656-659
Rebuild(i, d, net, order, nanCast, g) ==
    IF IsSome(d.ratings) THEN build_local(i, d, net, order, nanCast, g)
    ELSE build_remote(i, d, net, order, nanCast, g)

\* lines 625-630
LoadSplits(i, d, g) ==
    Staged("", [i EXCEPT !.URM_train = d.URM_train, !.URM_test = d.URM_test,
                         !.URM_validation = d.URM_validation,
                         !.URM = IF IsSome(d.URM) THEN d.URM ELSE @,
                         !.by = IF IsSome(d.URM) THEN d.by.URM ELSE @],
           d, g, "load")

Resplit(s) == Staged(s.err, s.inst, s.disk, s.rng, "split")

\* lines 636-642
SplitLoaded(i, d, g) ==
    Resplit(split_urm([i EXCEPT !.URM = d.URM, !.by = d.by.URM], d, d.URM,
                      i.split_ratio,
                      i.save_local, i.min_ratings, i.verbose, TRUE, g))

\* lines 620-659 for the instance with force_rebuild settled
UseLocal(i, d, net, order, nanCast, g) ==
    IF i.force_rebuild THEN Rebuild(i, d, net, order, nanCast, g)
    ELSE IF IsSome(d.URM_train) /\ IsSome(d.URM_test) /\ IsSome(d.URM_validation)
    THEN LoadSplits(i, d, g)
    ELSE IF IsSome(d.URM) THEN SplitLoaded(i, d, g)
    ELSE Rebuild(i, d, net, order, nanCast, g)

\* process(), with what the server would do if asked (net), the argsort
\* result and the NaN cast of the build (order, nanCast) and the generator
\* state g
process(i, d, net, order, nanCast, g) ==
    IF i.use_local THEN UseLocal(Forced(i, d), d, net, order, nanCast, g)
    ELSE build_remote(i, d, net, order, nanCast, g)

\* the ratings file a build started by process() reads
BuildFile(i, d) ==
    IF i.use_local /\ IsSome(d.ratings) THEN Get(d.ratings) ELSE RemoteRatings

ProcessReturns(r) ==
    /\ inst' = r.inst
    /\ disk' = r.disk
    /\ rng' = r.rng
    /\ out' = Outcome("process", Status(r.err), << >>, FALSE)
    /\ hist' = [hist EXCEPT !.calls = @ + 1, !.path = r.path, !.was = Some(disk)]

\* process()
Process ==
    /\ inst.constructed
    /\ hist.calls < MaxCalls
    /\ \E net \in Networks, nanCast \in NanCasts,
          order \in BuildOrders(inst, BuildFile(inst, disk)) :
          ProcessReturns(process(inst, disk, net, order, nanCast, rng))
    /\ UNCHANGED gen

(***************************************************************************)
(* Parser -> Builder -> Splitter / Cross-Validator on one instance.        *)
(***************************************************************************)
\* all files of at most max lines drawn from L
FilesOver(L, max) == UNION {[1..n -> L] : n \in 0..max}

SplitLines == {Line(1, 1, 5), Line(2, 1, 1)}

SplitParams ==
    {[DefaultParams EXCEPT !.split_ratio = ratio, !.min_ratings = mv[1],
                           !.verbose = mv[2]] :
        ratio \in {Ratio(<<1, 1, 1>>, 3), Ratio(<<1, 0, 0>>, 1)},
        mv \in {<<1, TRUE>>, <<2, FALSE>>, <<2, TRUE>>}}

InitSplit ==
    /\ disk \in {NewDisk(Some(f)) : f \in FilesOver(SplitLines, MaxNnz)}
    /\ inst \in {NewInstance(p) : p \in SplitParams}
    /\ rng \in 0..(RngMod - 1)
    /\ gen = None
    /\ out = NoOutcome
    /\ hist = NoHist

NextSplit == BuildURM \/ SplitUrm \/ Describe \/ GetCVFolds \/ CVFirst \/ CVNext

SpecSplit == InitSplit /\ [][NextSplit]_vars

(***************************************************************************)
(* The builder alone, over files that may be malformed.                    *)
(***************************************************************************)
BuildLines ==
    {Line(1, 1, 5), Line(2, 1, 3), Line(1, 2, 4), Line(HighId, 2, 2),
     Line(2, HighId, 1), <<IntLit(2), BadLit, FloatLit(1)>>, <<IntLit(3)>>,
     <<IntLit(1), IntLit(2)>>}

BuildParams ==
    {[DefaultParams EXCEPT !.implicit = im, !.remove_top_pop = r, !.header = h] :
        im \in BOOLEAN, r \in {<<0, 1>>, <<1, 3>>, <<1, 2>>}, h \in BOOLEAN}
    \cup {[DefaultParams EXCEPT !.use_cols = NoRatingCols],
          [DefaultParams EXCEPT !.save_local = FALSE]}

InitBuild ==
    /\ disk \in {NewDisk(Some(f)) : f \in FilesOver(BuildLines, MaxLines)}
    /\ inst \in {NewInstance(p) : p \in BuildParams}
    /\ rng = 0
    /\ gen = None
    /\ out = NoOutcome
    /\ hist = NoHist

NextBuild == BuildURM

SpecBuild == InitBuild /\ [][NextBuild]_vars

(***************************************************************************)
(* Readers constructed and asked to process, one after the other, on one   *)
(* dataset directory.                                                      *)
(***************************************************************************)
LocalRatings == {<<Line(1, 1, 5), Line(2, 1, 3)>>, <<Line(1, 1, 5), <<IntLit(3)>>>>}

ProcessParams ==
    {DefaultParams,
     [DefaultParams EXCEPT !.implicit = TRUE],
     [DefaultParams EXCEPT !.use_local = FALSE],
     [DefaultParams EXCEPT !.save_local = FALSE],
     [DefaultParams EXCEPT !.min_ratings = 2, !.verbose = FALSE],
     [DefaultParams EXCEPT !.implicit = TRUE, !.min_ratings = 2],
     [DefaultParams EXCEPT !.split_ratio = Ratio(<<5, 3, 1>>, 10)],
     [DefaultParams EXCEPT !.split_ratio = Ratio(<<1, 1>>, 2)],
     [DefaultParams EXCEPT !.split_ratio = Ratio(<<1, 1>>, 3)]}

InitProcess ==
    /\ disk \in {NewDisk(None)} \cup {NewDisk(Some(f)) : f \in LocalRatings}
    /\ inst = NoInstance
    /\ rng = 0
    /\ gen = None
    /\ out = NoOutcome
    /\ hist = NoHist

NextProcess == Construct(ProcessParams) \/ Process

SpecProcess == InitProcess /\ [][NextProcess]_vars

(***************************************************************************)
(* One reader that downloads and processes, against a server that may      *)
(* fail.                                                                   *)
(***************************************************************************)
FetchParams == {DefaultParams, [DefaultParams EXCEPT !.use_local = FALSE]}

InitFetch ==
    /\ disk \in {NewDisk(None)} \cup {NewDisk(Some(f)) : f \in LocalRatings}
    /\ inst \in {NewInstance(p) : p \in FetchParams}
    /\ rng = 0
    /\ gen = None
    /\ out = NoOutcome
    /\ hist = NoHist

NextFetch == GetRatingsFile \/ Process

SpecFetch == InitFetch /\ [][NextFetch]_vars

(***************************************************************************)
(* Properties of the splitter and of the fold generator.                   *)
(***************************************************************************)
\* every stored entry of M is, with its value, in exactly as many of the
\* parts as M holds it
SameEntries(M, parts) ==
    \A e \in Range(M.ent) \cup UNION {Range(parts[j].ent) : j \in 1..Len(parts)} :
        CountIn(M, e) = SumSeq([j \in 1..Len(parts) |-> CountIn(parts[j], e)])

SameSize(M, parts) == Nnz(M) = SumSeq([j \in 1..Len(parts) |-> Nnz(parts[j])])

\* C1: split_urm with min_ratings = 1 returns train, test and validation
\* matrices whose entries, taken together as a multiset of (row, col, value),
\* are the entries of the matrix given: the three sizes add up to nnz(M) and
\* no entry is dropped, duplicated or changed in value.
C1_SplitKeepsEveryEntry ==
    (IsSome(hist.last) /\ Get(hist.last).min_ratings = 1) =>
        /\ SameSize(Get(hist.last).input,
                    <<Get(hist.last).train, Get(hist.last).test, Get(hist.last).valid>>)
        /\ SameEntries(Get(hist.last).input,
                       <<Get(hist.last).train, Get(hist.last).test, Get(hist.last).valid>>)

\* the generator ran to its end over a matrix
Exhausted(g) == g.state = "finished" /\ IsSome(g.M)

\* C2: get_CV_folds yields exactly k (train, test) pairs; in each pair train
\* and test partition the entries of M, and the sizes of the k test sets add
\* up to nnz(M).
C2_FoldsPartitionTheMatrix ==
    (IsSome(gen) /\ Exhausted(Get(gen))) =>
        /\ Len(Get(gen).yielded) = Get(gen).folds
        /\ \A i \in 1..Len(Get(gen).yielded) :
              /\ SameEntries(Get(Get(gen).M), Get(gen).yielded[i])
              /\ SameSize(Get(Get(gen).M), Get(gen).yielded[i])
        /\ SameSize(Get(Get(gen).M),
                    [i \in 1..Len(Get(gen).yielded) |-> Get(gen).yielded[i][2]])

\* C5: split_urm, describe or get_CV_folds requested without a matrix while
\* the instance has no URM raises the missing-attribute error at the request
\* and returns nothing.
C5_MissingMatrixRaisesAtRequest ==
    (/\ out.op \in {"split_urm", "describe", "get_CV_folds"}
     /\ ~out.withArg
     /\ inst.URM = None)
        => (out.status = "AttributeError" /\ out.ret = << >>)

\* C9: two splits of the same matrix with the same ratio and the same
\* configured seed give every entry the same label, whatever the state of
\* the process-wide generator was.
C9_SameSeedSameSplit ==
    (/\ IsSome(hist.last) /\ IsSome(hist.prev)
     /\ Get(hist.last).input = Get(hist.prev).input
     /\ Get(hist.last).ratio = Get(hist.prev).ratio
     /\ Get(hist.last).min_ratings = Get(hist.prev).min_ratings
     /\ Get(hist.last).seed = Get(hist.prev).seed)
        => Get(hist.last).choice = Get(hist.prev).choice
(***************************************************************************)
(* Properties of the builder.                                              *)
(***************************************************************************)
\* the data lines of the ratings file on disk, as the instance reads it
DataLines ==
    IF inst.header /\ Get(disk.ratings) # << >>
    THEN Tail(Get(disk.ratings)) ELSE Get(disk.ratings)

\* a line that lacks a field it is asked for or holds one that is no number
Malformed(line) ==
    \/ "rating" \notin DOMAIN inst.use_cols
    \/ \E role \in DOMAIN inst.use_cols :
          \/ inst.use_cols[role] + 1 > Len(line)
          \/ line[inst.use_cols[role] + 1].k = "bad"
          \/ role # "rating" /\ line[inst.use_cols[role] + 1].k # "int"

\* the raw value of a field of a well-formed line
RawOf(line, role) == line[inst.use_cols[role] + 1].v

BuildDone == out.op = "build_URM" /\ out.status = "ok"

RawItems == {RawOf(DataLines[i], "item_id") : i \in 1..Len(DataLines)}

\* the number of interactions of an item in the file
Popularity(x) ==
    Cardinality({i \in 1..Len(DataLines) : RawOf(DataLines[i], "item_id") = x})

SurvivingItems == DOMAIN Get(inst.col_to_item)

\* the positions of the interactions with a surviving item, in file order
KeptLines ==
    SortInts({i \in 1..Len(DataLines) :
                 RawOf(DataLines[i], "item_id") \in SurvivingItems})

SurvivingUsers == {RawOf(DataLines[KeptLines[j]], "user_id") : j \in 1..Len(KeptLines)}

FilterOn == inst.remove_top_pop[1] > 0

\* C6: with remove_top_pop = r > 0 a successful build removes
\* k = floor(n * r) of the n distinct items, none of them less popular than
\* an item it keeps, and keeps exactly the interactions of the other items:
\* the j-th entry of the matrix is the j-th such line of the file, with its
\* value, and two entries share a row exactly when their lines share a user.
C6_TopPopularItemsRemoved ==
    (BuildDone /\ FilterOn) =>
        /\ SurvivingItems \subseteq RawItems
        /\ Cardinality(SurvivingItems)
             = Cardinality(RawItems)
               - (Cardinality(RawItems) * inst.remove_top_pop[1])
                    \div inst.remove_top_pop[2]
        /\ Get(inst.URM).shape[2] = Cardinality(SurvivingItems)
        /\ \A x \in RawItems \ SurvivingItems :
              \A y \in SurvivingItems : Popularity(x) >= Popularity(y)
        /\ Len(Get(inst.URM).ent) = Len(KeptLines)
        /\ \A j \in 1..Len(KeptLines) :
              /\ Get(inst.URM).ent[j].val
                   = IF inst.implicit THEN 1
                     ELSE RawOf(DataLines[KeptLines[j]], "rating")
              /\ \A h \in 1..Len(KeptLines) :
                    (Get(inst.URM).ent[j].row = Get(inst.URM).ent[h].row)
                    <=> (RawOf(DataLines[KeptLines[j]], "user_id")
                         = RawOf(DataLines[KeptLines[h]], "user_id"))

\* C6 witness: a build with the filter on that removed an item and, with
\* it, some but not all of the interactions of the file
C6_Witness ==
    /\ BuildDone /\ FilterOn
    /\ Cardinality(SurvivingItems) < Cardinality(RawItems)
    /\ Len(Get(inst.URM).ent) > 0
    /\ Len(Get(inst.URM).ent) < Len(DataLines)

\* d maps exactly the ids in S, one to one, onto 0 .. |S| - 1
IndexesExactly(d, S) ==
    /\ DOMAIN d = S
    /\ {d[x] : x \in DOMAIN d} = 0..(Cardinality(S) - 1)

\* C7: after a successful build row_to_user maps the raw ids of the
\* surviving users, and col_to_item those of the surviving items, onto
\* contiguous zero-based indices, the matrix has one row per surviving user
\* and one column per surviving item, and each entry sits at the indices of
\* the user and the item of its line.
C7_RawIdsIndexed ==
    BuildDone =>
        /\ IndexesExactly(Get(inst.row_to_user), SurvivingUsers)
        /\ IndexesExactly(Get(inst.col_to_item), SurvivingItems)
        /\ SurvivingItems \subseteq RawItems
        /\ ~FilterOn => SurvivingItems = RawItems
        /\ Get(inst.URM).shape
             = <<Cardinality(SurvivingUsers), Cardinality(SurvivingItems)>>
        /\ Len(Get(inst.URM).ent) = Len(KeptLines)
        /\ \A j \in 1..Len(KeptLines) :
              /\ Get(inst.URM).ent[j].row
                   = Get(inst.row_to_user)[RawOf(DataLines[KeptLines[j]], "user_id")]
              /\ Get(inst.URM).ent[j].col
                   = Get(inst.col_to_item)[RawOf(DataLines[KeptLines[j]], "item_id")]

\* C8: a successful build with implicit = True stores 1 for every
\* interaction, in memory and on disk; one with implicit = False stores the
\* rating of the line.
C8_ImplicitStoresOnes ==
    BuildDone =>
        /\ Len(Get(inst.URM).ent) = Len(KeptLines)
        /\ \A j \in 1..Len(KeptLines) :
              Get(inst.URM).ent[j].val
                = IF inst.implicit THEN 1
                  ELSE RawOf(DataLines[KeptLines[j]], "rating")
        /\ inst.save_local => disk.URM = inst.URM

\* C8 witness: an implicit build of a file with a rating other than 1
C8_Witness ==
    /\ BuildDone /\ inst.implicit
    /\ \E j \in 1..Len(KeptLines) : RawOf(DataLines[KeptLines[j]], "rating") # 1

\* C10: a build of a file with a malformed data line raises, having read
\* no further than that line, and leaves no matrix in memory or on disk.
C10_MalformedLineAborts ==
    \A n \in 1..Len(DataLines) :
        (out.op = "build_URM" /\ Malformed(DataLines[n])) =>
            /\ out.status \in {"ValueError", "IndexError", "KeyError"}
            /\ out.ret = None
            /\ hist.parsed < n
            /\ inst.URM = None
            /\ disk.URM = None /\ disk.row_to_user = None /\ disk.col_to_item = None

\* C10 witness: a build that raised at a malformed line after reading a
\* well-formed one
C10_Witness ==
    /\ out.op = "build_URM" /\ out.status # "ok"
    /\ \E n \in 2..Len(DataLines) :
          Malformed(DataLines[n]) /\ hist.parsed = n - 1

(***************************************************************************)
(* Properties of the constructor and of the build request.                 *)
(***************************************************************************)
\* the directory as the last process() found it
Found == Get(hist.was)

\* no record was found, or one that differs from the requested configuration
RecordDiffers == Found.config = None \/ Get(Found.config) # Get(inst.config)

\* the full matrix in memory holds the interactions of the ratings file on
\* disk, as the requested configuration stores them
MatrixFromRatings ==
    /\ IsSome(disk.ratings) /\ IsSome(inst.URM) /\ IsSome(inst.col_to_item)
    /\ Len(Get(inst.URM).ent) = Len(KeptLines)
    /\ \A j \in 1..Len(KeptLines) :
          Get(inst.URM).ent[j].val
            = IF inst.implicit THEN 1
              ELSE RawOf(DataLines[KeptLines[j]], "rating")

\* C3: when process() finds no configuration record, or one that differs
\* from the requested configuration, it loads no cached matrix: it builds
\* from the ratings file (the local one, or else the downloaded one), and
\* when it returns the matrix in memory is the one of that file under the
\* requested configuration and the record on disk is the requested one.
C3_MismatchForcesRebuild ==
    (out.op = "process" /\ RecordDiffers) =>
        /\ hist.path \in {"build_local", "build_remote"}
        /\ out.status = "ok" =>
              /\ MatrixFromRatings
              /\ disk.config = inst.config
              /\ IsSome(inst.URM_train) /\ IsSome(inst.URM_test)
              /\ IsSome(inst.URM_validation)

\* C3 witness: a process() that found the full matrix, the three splits and
\* the record of a build with another configuration, and returned
C3_Witness ==
    /\ out.op = "process" /\ out.status = "ok"
    /\ inst.use_local
    /\ IsSome(Found.config) /\ Get(Found.config) # Get(inst.config)
    /\ IsSome(Found.URM) /\ IsSome(Found.URM_train)
    /\ IsSome(Found.URM_test) /\ IsSome(Found.URM_validation)

\* a ratio list whose length is not 3 or whose elements do not sum to 1
InvalidRatio(ratio) ==
    Len(ratio.p) # 3 \/ SumSeq(ratio.p) # ratio.den

\* C4: a constructor call with an invalid split ratio raises its error
\* with no attribute of the instance set and no file of the directory
\* touched.
C4_InvalidRatioRejected ==
    [][(out'.op = "__init__" /\ InvalidRatio(out'.ret[1].split_ratio)) =>
          /\ out'.status = "AttributeError"
          /\ inst' = NoInstance
          /\ disk' = disk]_vars

\* C4 witness: a constructor call with an invalid ratio that raised, on a
\* directory that holds the files of an earlier build
C4_Witness ==
    /\ out.op = "__init__" /\ out.status = "AttributeError"
    /\ InvalidRatio(out.ret[1].split_ratio)
    /\ inst = NoInstance
    /\ IsSome(disk.config) /\ IsSome(disk.URM)

(***************************************************************************)
(* Properties of the download.                                             *)
(***************************************************************************)
\* the request raised an error of the download or of the extraction
TransferFailed ==
    \/ out.op = "get_ratings_file" /\ out.status # "ok"
    \/ out.op = "process" /\ out.status \in {"ConnectionError", "BadZipFile"}

\* C11: whenever a download or an extraction has failed (response other
\* than 200, transfer cut, corrupt archive, ratings file missing from the
\* archive) and the error has reached the caller, no archive file is left in
\* the dataset directory.
C11_FailedTransferLeavesNoArchive ==
    TransferFailed => disk.zip = None

(***************************************************************************)
(* Properties of the minimum-ratings filter.                               *)
(***************************************************************************)
\* the number of entries the matrix m stores for user r
EntriesOfUser(m, r) == Cardinality({j \in 1..Len(m.ent) : m.ent[j].row = r})

\* some of the three parts of the split s stores an entry of user r
UserInParts(s, r) ==
    \E part \in {s.train, s.test, s.valid} : EntriesOfUser(part, r) > 0

\* some of the three parts of the split s stores an entry where e is
KeptInParts(s, e) ==
    \E part \in {s.train, s.test, s.valid} :
        \E j \in 1..Len(part.ent) :
            part.ent[j].row = e.row /\ part.ent[j].col = e.col

\* C12: a split with min_ratings = m > 1 that returned has filtered by the
\* number of entries per user: a user with fewer than m entries in the
\* matrix given has no entry in train, test or validation, and every entry
\* of a user with at least m entries is in one of them; with m = 1 the
\* matrix split is the matrix given.
C12_MinRatingsFiltersByCount ==
    IsSome(hist.last) =>
        /\ Get(hist.last).min_ratings = 1 =>
              Get(hist.last).M = Get(hist.last).input
        /\ Get(hist.last).min_ratings > 1 =>
              \A e \in Range(Get(hist.last).input.ent) :
                  IF EntriesOfUser(Get(hist.last).input, e.row)
                       < Get(hist.last).min_ratings
                  THEN ~UserInParts(Get(hist.last), e.row)
                  ELSE KeptInParts(Get(hist.last), e)

(***************************************************************************)
(* Properties of the order of the dense indices.                           *)
(***************************************************************************)
\* the mapping d gives the smaller of two ids the smaller index
OrderPreserving(d) == \A a, b \in DOMAIN d : a < b => d[a] < d[b]

\* C13: after a successful build, with or without the popularity filter,
\* row_to_user and col_to_item give the smaller of any two raw ids the
\* smaller index.
C13_IndexFollowsSortedIds ==
    BuildDone =>
        /\ OrderPreserving(Get(inst.row_to_user))
        /\ OrderPreserving(Get(inst.col_to_item))

(***************************************************************************)
(* Properties of a reader without a rating column.                         *)
(***************************************************************************)
\* the reader was given user_id and item_id columns only
TwoRoles == DOMAIN inst.use_cols = {"user_id", "item_id"}

\* every data line of the file is a user id and an item id, nothing else
TwoColumnFile ==
    \A n \in 1..Len(DataLines) :
        /\ Len(DataLines[n]) = 2
        /\ DataLines[n][1].k = "int" /\ DataLines[n][2].k = "int"

\* C15: a reader constructed without a rating column is in implicit mode,
\* and its build of a well-formed two-column file returns a matrix with one
\* entry of value 1 for each line.
C15_TwoColumnBuildSucceeds ==
    TwoRoles =>
        /\ inst.implicit
        /\ (out.op = "build_URM" /\ TwoColumnFile) =>
              /\ out.status = "ok"
              /\ IsSome(inst.URM)
              /\ Len(Get(inst.URM).ent) = Len(DataLines)
              /\ \A j \in 1..Len(Get(inst.URM).ent) : Get(inst.URM).ent[j].val = 1

(***************************************************************************)
(* Properties of the cache.                                                *)
(***************************************************************************)
\* the last process() loaded the three splits (and the full matrix, if
\* there was one) from the directory
LoadedSplits == out.op = "process" /\ hist.path = "load"

\* the last process() loaded the full matrix and split it anew
LoadedFull == out.op = "process" /\ hist.path = "split"

\* C14: whenever process() loads cached files instead of rebuilding, the
\* files it loads come from one build made with the requested parameters:
\* the splits were made under the requested configuration and min_ratings,
\* from the full matrix that is loaded with them, and that matrix was built
\* under the requested configuration.
C14_LoadedCacheIsCoherent ==
    /\ LoadedSplits =>
          /\ IsSome(Found.by.splits)
          /\ Get(Found.by.splits).config = Get(inst.config)
          /\ Get(Found.by.splits).min_ratings = inst.min_ratings
          /\ IsSome(Get(Found.by.splits).of)
          /\ Get(Get(Found.by.splits).of).config = Get(inst.config)
          /\ IsSome(Found.URM) => Found.by.URM = Get(Found.by.splits).of
    /\ LoadedFull =>
          /\ IsSome(Found.by.URM)
          /\ Get(Found.by.URM).config = Get(inst.config)

====
